---------------------------- MODULE Spec2Model ----------------------------
(***************************************************************************)
(* NRF52FlashStorage: byte-addressable read/write/erase over word-aligned  *)
(* NOR flash.  The repository holds two implementations of the class:      *)
(*   "fs"  : src/storage/NRF52FlashStorage.cpp (fstorage, fs_store/fs_erase,*)
(*           one completion flag, BLE SoftDevice brought up around the     *)
(*           operation);                                                   *)
(*   "nrf" : src/unnamed/part_000 lines 1-381 (nrf_fstorage, one flag per  *)
(*           operation kind, no SoftDevice handling).                      *)
(* The build links one of them; `backend` records which.                   *)
(*                                                                         *)
(* Addresses are byte offsets relative to the storage start address.  The  *)
(* flash content is kept sparsely: `flash` maps exactly the addresses that *)
(* hold a byte other than 0xFF to that byte.                               *)
(*                                                                         *)
(* Spec is the store driven by calls; FairSpec adds the medium's and the   *)
(* caller's progress; AlignSpec applies the alignment arithmetic alone to  *)
(* the extreme lengths.                                                    *)
(***************************************************************************)
EXTENDS Integers, Sequences, FiniteSets, TLC

VARIABLES
    backend,                    \* which implementation is linked
    waitLoop,                   \* what the build made of the wait loop
    flash,                      \* medium content (sparse, see above)
    pending,                    \* operation accepted by the medium, not completed
    fs_callback_flag,           \* "fs":  storage/NRF52FlashStorage.cpp:79
    fs_writeData_callback_flag, \* "nrf": part_000:50
    fs_erasePage_callback_flag, \* "nrf": part_000:51
    sdEnabled,                  \* softdevice_handler_isEnabled()
    bleInit,                    \* BLE::Instance().hasInitialized()
    activatedSdStatus,          \* member set by initBleSd
    sdThreads,                  \* event thread/queue pairs created and not deleted
    sdExternal,                 \* the application has brought the BLE stack up itself
    pc,                         \* position of the (single) calling context
    call,                       \* the call being executed / last executed
    ret,                        \* its return: [done, value, at]
    readBuf,                    \* bytes the call copied to the caller's buffer
    access,                     \* what the call fetched from / handed to the medium
    flash0,                     \* medium content when the call started
    events,                     \* what the call has done so far, in order
    repeated,                   \* the call repeats the read made just before it
    ops,                        \* number of calls made
    request,                    \* alignment alone: offset and length asked for
    aligned                     \* alignment alone: the aligned request computed

vars == <<backend, waitLoop, flash, pending, fs_callback_flag, fs_writeData_callback_flag,
          fs_erasePage_callback_flag, sdEnabled, bleInit, activatedSdStatus,
          sdThreads, sdExternal, pc, call, ret, readBuf, access, flash0, events, repeated, ops,
          request, aligned>>

-----------------------------------------------------------------------------
(* Program constants *)

PAGE_SIZE_WORDS == 1024
NUM_PAGES == 3
ERASED == 255
WORD_BYTES == 4

PageBytes == PAGE_SIZE_WORDS * WORD_BYTES

(* Bounds of the exploration *)
MaxLen == 2
MaxOps == 2

Backends == {"fs", "nrf"}

(* The wait loop, while (flag == 1) ;  In part_000 the flags are volatile   *)
(* (lines 50-51): every turn of the loop loads the flag ("poll").  In       *)
(* storage/NRF52FlashStorage.cpp the flag is a plain static uint8_t (line   *)
(* 79) that the event context writes while the caller reads it, a data     *)
(* race, and the loop body has no side effect.  The build may keep the     *)
(* load in the loop ("poll"), load the flag once before the loop and spin  *)
(* on the copy ("once"), or drop the loop as one that has to end ("none"). *)
WaitLoops(be) == IF be = "fs" THEN {"poll", "once", "none"} ELSE {"poll"}

\* fs_config after fs_init / nrfFstorage as defined: [start, end) in bytes,
\* relative to the start address.  "nrf" keeps the values of its definition
\* (start_addr = 0, end_addr = PAGE_SIZE_WORDS).
EndOffset(be) == IF be = "fs" THEN NUM_PAGES * PageBytes ELSE PAGE_SIZE_WORDS

-----------------------------------------------------------------------------
(* Fixed-width arithmetic.  Offsets, word indices and page addresses stay   *)
(* far below 2^32 here, so uint32_t sums are written without reduction.    *)

U8(x)  == x % 256
U16(x) == x % 65536

RECURSIVE And8(_, _, _)
And8(a, b, n) ==
    IF n = 0 THEN 0
    ELSE (IF a % 2 = 1 /\ b % 2 = 1 THEN 1 ELSE 0) + 2 * And8(a \div 2, b \div 2, n - 1)

-----------------------------------------------------------------------------
(* The medium's memory *)

MemByte(mem, a) == IF a \in DOMAIN mem THEN mem[a] ELSE ERASED

(* A uint32_t is written as its four base-256 digits, least significant     *)
(* first: <<d0, d1, d2, d3>> stands for d0 + 2^8 d1 + 2^16 d2 + 2^24 d3.   *)
Word32(n) == <<n % 256, (n \div 256) % 256, (n \div 65536) % 256, (n \div 16777216) % 256>>

\* the 32-bit word loaded from word index w (the Cortex-M4 is little-endian:
\* the byte at the lowest address is the least significant)
MemWord(mem, w) ==
    <<MemByte(mem, 4 * w), MemByte(mem, 4 * w + 1),
      MemByte(mem, 4 * w + 2), MemByte(mem, 4 * w + 3)>>

\* mem with the bytes of `upd` (a function address -> byte) stored
Store(mem, upd) ==
    LET all == DOMAIN mem \cup DOMAIN upd
        val(a) == IF a \in DOMAIN upd THEN upd[a] ELSE mem[a]
        keep == {a \in all : val(a) # ERASED}
    IN [a \in keep |-> val(a)]

\* NOR programming: bits only go 1 -> 0
Programmed(mem, addr, bytes) ==
    Store(mem, [a \in addr .. addr + Len(bytes) - 1 |->
                    And8(MemByte(mem, a), bytes[a - addr + 1], 8)])

ErasedRange(mem, addr, nbytes) ==
    [a \in {x \in DOMAIN mem : x < addr \/ x >= addr + nbytes} |-> mem[a]]

-----------------------------------------------------------------------------
(* Alignment arithmetic shared by readData and writeData *)

PreLength(p_location) == U8(p_location % 4)

LocationReal(p_location) == p_location - PreLength(p_location)

LengthReal(p_location, length8) ==
    LET l == U16(length8 + PreLength(p_location))
    IN  IF l % 4 # 0 THEN U16(l + (4 - (l % 4))) ELSE l

Length32(lengthReal) == lengthReal \div 4

\* the four values readData and writeData derive from their arguments
AlignedRequest(p_location, length8) ==
    [preLength    |-> PreLength(p_location),
     locationReal |-> LocationReal(p_location),
     lengthReal   |-> LengthReal(p_location, length8),
     length32     |-> Length32(LengthReal(p_location, length8))]

(* FlashStorage::conv32to8 / conv8to32 (base class): native little-endian   *)
(* packing, byte 0 in the least-significant position.                      *)
conv32to8(buf32, lengthReal) ==
    [j \in 1 .. lengthReal |-> buf32[((j - 1) \div 4) + 1][((j - 1) % 4) + 1]]

conv8to32(bufferReal, lengthReal) ==
    [i \in 1 .. Length32(lengthReal) |->
        <<bufferReal[4 * i - 3], bufferReal[4 * i - 2],
          bufferReal[4 * i - 1], bufferReal[4 * i]>>]

-----------------------------------------------------------------------------
(* readData *)

\* the loop that fills buf32: "fs" dereferences the word pointer
\* (storage/NRF52FlashStorage.cpp:168), "nrf" stores the sum itself
\* (part_000:234, start_addr = 0).
FetchWords(be, mem, locationReal, length32) ==
    [i \in 1 .. length32 |->
        IF be = "fs"
        THEN MemWord(mem, (locationReal \div 4) + (i - 1))
        ELSE Word32(0 + (locationReal \div 4) + (i - 1))]

\* a half-open range of byte offsets from the start address
Span(lo, nbytes) == [lo |-> lo, hi |-> lo + nbytes]

NoAccess == [fetch |-> Span(0, 0), submit |-> Span(0, 0)]

\* the bytes that loop loads from the medium: "nrf" dereferences nothing
FetchSpan(be, locationReal, length32) ==
    IF be = "fs" THEN Span(4 * (locationReal \div 4), WORD_BYTES * length32)
    ELSE Span(0, 0)

readArgsOk(bufNull, length8) == ~(bufNull \/ length8 = 0)

\* the bytes readData copies into `buffer` (arguments already checked)
readData(be, mem, p_location, length8) ==
    LET preLength == PreLength(p_location)
        locationReal == LocationReal(p_location)
        lengthReal == LengthReal(p_location, length8)
        buf32 == FetchWords(be, mem, locationReal, Length32(lengthReal))
        bufferReal == conv32to8(buf32, lengthReal)
    IN  [j \in 1 .. length8 |-> bufferReal[j + preLength]]

-----------------------------------------------------------------------------
(* writeData: the part before the medium is involved *)

\* the loop at storage/NRF52FlashStorage.cpp:227-232
DestinationEmpty(bufferReal, preLength, length8) ==
    \A i \in preLength .. preLength + length8 - 1 : bufferReal[i + 1] = ERASED

\* (variant: the bytes around the caller's data are cleared, not set to 0xFF)
FillBuffer_ZeroPad(buffer, preLength, length8, lengthReal) ==
    [l \in 1 .. lengthReal |->
        IF l - 1 < preLength THEN 0
        ELSE IF l - 1 < preLength + length8 THEN buffer[l - preLength]
        ELSE 0]

\* the three loops at storage/NRF52FlashStorage.cpp:235-243
FillBuffer(buffer, preLength, length8, lengthReal) ==
    [l \in 1 .. lengthReal |->
        IF l - 1 < preLength THEN ERASED
        ELSE IF l - 1 < preLength + length8 THEN buffer[l - preLength]
        ELSE ERASED]

\* destination handed to fs_store / nrf_fstorage_write, as a byte offset from
\* the start address: "fs" adds words to a uint32_t pointer, "nrf" adds the
\* word index to the integer start_addr.
WriteDest(be, locationReal) ==
    IF be = "fs" THEN 4 * (locationReal \div 4) ELSE 0 + (locationReal \div 4)

\* (variant: the word offset of the page computed in 16 bits)
EraseDest_Wrap16(be, page) ==
    IF be = "fs" THEN 4 * U16(PAGE_SIZE_WORDS * page) ELSE 0 + U16(PAGE_SIZE_WORDS * page)

\* page address handed to fs_erase / nrf_fstorage_erase
EraseDest(be, page) ==
    IF be = "fs" THEN 4 * (PAGE_SIZE_WORDS * page) ELSE 0 + PAGE_SIZE_WORDS * page

-----------------------------------------------------------------------------
(* The medium (fstorage / nrf_fstorage and the flash controller behind it) *)

NoOp == [kind |-> "none", dest |-> 0, bytes |-> <<>>, pages |-> 0]

\* what the medium refuses outright (cf. nosd_store, nosd_erase_page)
MediumTakesWrite(be, dest, length32) ==
    /\ dest % 4 = 0
    /\ length32 # 0
    /\ dest + 4 * length32 <= EndOffset(be)

MediumTakesErase(be, dest, numPages) ==
    /\ dest % PageBytes = 0
    /\ numPages # 0
    /\ dest + numPages * PageBytes <= EndOffset(be)

\* content after a program of the first k words / erase of the first k pages
AfterOp(mem, op, k) ==
    IF op.kind = "write"
    THEN Programmed(mem, op.dest, SubSeq(op.bytes, 1, 4 * k))
    ELSE ErasedRange(mem, op.dest, k * PageBytes)

OpUnits(op) == IF op.kind = "write" THEN Len(op.bytes) \div 4 ELSE op.pages

-----------------------------------------------------------------------------
(* Completion callbacks (run in the medium's event context) *)

\* storage/NRF52FlashStorage.cpp: one flag, cleared on any successful event
fs_evt_handler(flag, success) == IF ~success THEN flag ELSE 0

\* part_000: one flag per event id, cleared on success only
fstorage_evt_handler(flags, kind, success) ==
    IF ~success THEN flags
    ELSE IF kind = "write" THEN [flags EXCEPT !.write = 0]
    ELSE IF kind = "erase" THEN [flags EXCEPT !.erase = 0]
    ELSE flags

-----------------------------------------------------------------------------
(* The wait for the completion callback *)

\* the caller gets past  while (flag == 1) ;  with the flag as it is now
WaitExits(loop, flag) == loop = "none" \/ flag # 1

\* the one load of a "once" build finds the flag still set: the loop spins on
\* the copy and nothing the callback does ends it
WaitSpins(loop, flag) == loop = "once" /\ flag = 1

-----------------------------------------------------------------------------
(* SoftDevice bring-up around an operation ("fs" only) *)

Guard == [sdEnabled |-> sdEnabled, bleInit |-> bleInit,
          activatedSdStatus |-> activatedSdStatus, sdThreads |-> sdThreads]

\* bleOk: ble.init() returns BLE_ERROR_NONE and the SoftDevice comes up
initBleSd(g, bleOk) ==
    IF g.sdEnabled
    THEN [g |-> g, error |-> FALSE]
    ELSE [g |-> [sdEnabled |-> bleOk, bleInit |-> bleOk,
                 activatedSdStatus |-> TRUE, sdThreads |-> g.sdThreads + 1],
          error |-> ~bleOk]

deinitBleSd(g) ==
    IF g.activatedSdStatus
    THEN IF g.bleInit
         THEN [sdEnabled |-> FALSE, bleInit |-> FALSE,
               activatedSdStatus |-> FALSE, sdThreads |-> g.sdThreads - 1]
         ELSE [g EXCEPT !.activatedSdStatus = FALSE]
    ELSE g

SetGuard(g) ==
    /\ sdEnabled' = g.sdEnabled
    /\ bleInit' = g.bleInit
    /\ activatedSdStatus' = g.activatedSdStatus
    /\ sdThreads' = g.sdThreads

guardVars == <<sdEnabled, bleInit, activatedSdStatus, sdThreads>>
envVars == <<backend, waitLoop, sdExternal>>
alignVars == <<request, aligned>>
flagVars == <<fs_callback_flag, fs_writeData_callback_flag, fs_erasePage_callback_flag>>

-----------------------------------------------------------------------------
(* Calls and their inputs *)

InitAddrs == {1, 1020, PAGE_SIZE_WORDS, NUM_PAGES * PageBytes}
\* flash content when the program starts: erased, or left over from earlier use
InitImages == {[a \in {} |-> 0], [a \in InitAddrs |-> 90]}

\* offsets: each alignment, a word and page crossing, the last two bytes and
\* one past the end; for "nrf" the word whose index is 255 (1020)
Offsets(be) ==
    {0, 1, PageBytes - 1, EndOffset(be) - 2, EndOffset(be)}
      \cup (IF be = "nrf" THEN {1020} ELSE {})
Seeds == {90}

\* <<page, numPages>>: inside, up to the end, past the end, nothing, far out
EraseArgs ==
    {<<0, 1>>, <<0, 2>>, <<NUM_PAGES - 1, 1>>, <<NUM_PAGES - 1, 2>>, <<0, 0>>, <<128, 1>>}

\* lengths: one byte and the longest
Lengths == {1, MaxLen}

\* <<p_location, buffer == NULL, length8>>
BufferArgs(be) ==
    {<<o, FALSE, l>> : o \in Offsets(be), l \in Lengths}
      \cup {<<0, FALSE, 0>>, <<0, TRUE, 1>>}

\* the caller's buffer: seed, seed+1, ...
Data(seed, length8) == [k \in 1 .. length8 |-> U8(seed + k - 1)]

NoRequest == [p_location |-> 0, length8 |-> 0]
NoAligned == <<>>

NoCall == [op |-> "none", p_location |-> 0, length8 |-> 0, bufNull |-> FALSE,
           seed |-> 0, page |-> 0, numPages |-> 0]
NoRet == [done |-> FALSE, value |-> FALSE, at |-> "none"]
Returned(value, at) == [done |-> TRUE, value |-> value, at |-> at]

\* The caller makes a call when the one before has returned and the flash
\* controller is idle.
Begin(c) ==
    /\ pc = "idle"
    /\ pending = NoOp
    /\ ops < MaxOps
    /\ ops' = ops + 1
    /\ call' = c
    /\ repeated' = (c.op = "read" /\ c = call /\ ret.value)
    /\ flash0' = flash

-----------------------------------------------------------------------------
(* init *)

\* ok: fs_init / nrf_fstorage_init returns success
init(ok) ==
    /\ Begin([NoCall EXCEPT !.op = "init"])
    /\ ret' = Returned(ok, "init")
    /\ events' = <<>>
    /\ readBuf' = <<>>
    /\ access' = NoAccess
    /\ UNCHANGED <<envVars, alignVars, flash, pending, flagVars, guardVars, pc>>

-----------------------------------------------------------------------------
(* readData *)

\* (variant: readData raises the shared flag, as a read through the medium's
\* asynchronous API would)
readDataFlags_Raise(flags) == <<1, flags[2], flags[3]>>

\* readData never assigns a completion flag
readDataFlags(flags) == flags

readDataCall(p_location, bufNull, length8) ==
    /\ Begin([NoCall EXCEPT !.op = "read", !.p_location = p_location,
                            !.bufNull = bufNull, !.length8 = length8])
    /\ IF ~readArgsOk(bufNull, length8)
       THEN /\ ret' = Returned(FALSE, "null")
            /\ readBuf' = <<>>
            /\ access' = NoAccess
            /\ events' = <<>>
       ELSE /\ ret' = Returned(TRUE, "ok")
            /\ readBuf' = readData(backend, flash, p_location, length8)
            /\ access' = [NoAccess EXCEPT !.fetch =
                              FetchSpan(backend, LocationReal(p_location),
                                        Length32(LengthReal(p_location, length8)))]
            /\ events' = <<"read">>
    /\ LET f == readDataFlags(flagVars)
       IN  /\ fs_callback_flag' = f[1]
           /\ fs_writeData_callback_flag' = f[2]
           /\ fs_erasePage_callback_flag' = f[3]
    /\ UNCHANGED <<envVars, alignVars, flash, pending, guardVars, pc>>

-----------------------------------------------------------------------------
(* writeData *)

\* (variant: the length is not looked at)
writeArgsOk_NullOnly(bufNull, length8) == ~bufNull

writeArgsOk(bufNull, length8) == ~(bufNull \/ length8 = 0)

\* (variant: the medium's return code is dropped)
writeDataResult_Dropped(accepted) == TRUE

\* the value writeData returns once fs_store / nrf_fstorage_write has refused
\* (accepted = FALSE) or accepted and completed (accepted = TRUE)
writeDataResult(accepted) == accepted

\* accept: the medium does not refuse for a reason of its own (queue full, busy)
\* bleOk:  see initBleSd
writeDataCall(p_location, bufNull, length8, seed, accept, bleOk) ==
    LET buffer == Data(seed, length8)
        preLength == PreLength(p_location)
        locationReal == LocationReal(p_location)
        lengthReal == LengthReal(p_location, length8)
        current == readData(backend, flash, locationReal, lengthReal)
        bufferReal == FillBuffer(buffer, preLength, length8, lengthReal)
        buf32 == conv8to32(bufferReal, lengthReal)
        length32 == Length32(lengthReal)
        dest == WriteDest(backend, locationReal)
        accepted == /\ accept
                    /\ MediumTakesWrite(backend, dest, length32)
        fetch == FetchSpan(backend, locationReal, length32)
        acq == initBleSd(Guard, bleOk)
        pre == IF backend = "fs"
               THEN <<"read", IF acq.error THEN "acquireFailed" ELSE "acquire",
                      "begin", "submitWrite">>
               ELSE <<"read", "begin", "submitWrite">>
    IN
    /\ pc = "idle"
    /\ ops < MaxOps
    /\ (backend # "fs" \/ sdEnabled) => bleOk
    /\ ~MediumTakesWrite(backend, dest, length32) => accept
    /\ Begin([NoCall EXCEPT !.op = "write", !.p_location = p_location,
                            !.bufNull = bufNull, !.length8 = length8, !.seed = seed])
    /\ readBuf' = <<>>
    /\ UNCHANGED <<envVars, alignVars, flash, fs_erasePage_callback_flag>>
    /\ IF ~writeArgsOk(bufNull, length8)
       THEN /\ ret' = Returned(FALSE, "null")
            /\ events' = <<>>
            /\ access' = NoAccess
            /\ UNCHANGED <<pending, guardVars, pc, fs_callback_flag,
                           fs_writeData_callback_flag>>
       ELSE IF ~DestinationEmpty(current, preLength, length8)
       THEN /\ ret' = Returned(FALSE, "notEmpty")
            /\ events' = <<"read">>
            /\ access' = [NoAccess EXCEPT !.fetch = fetch]
            /\ UNCHANGED <<pending, guardVars, pc, fs_callback_flag,
                           fs_writeData_callback_flag>>
       ELSE /\ access' = [fetch |-> fetch, submit |-> Span(dest, WORD_BYTES * length32)]
            /\ IF backend = "fs"
               THEN /\ SetGuard(acq.g)
                    /\ fs_callback_flag' = 1
                    /\ UNCHANGED fs_writeData_callback_flag
               ELSE /\ fs_writeData_callback_flag' = 1
                    /\ UNCHANGED <<guardVars, fs_callback_flag>>
            /\ IF accepted
               THEN /\ pending' = [kind |-> "write", dest |-> dest,
                                   bytes |-> conv32to8(buf32, lengthReal), pages |-> 0]
                    /\ pc' = "writeWait"
                    /\ ret' = NoRet
                    /\ events' = Append(pre, "accepted")
               ELSE /\ ret' = Returned(writeDataResult(FALSE), "rejected")
                    /\ events' = Append(pre, "rejected")
                    /\ UNCHANGED <<pending, pc>>

\* the wait loop is left: while (flag == 1) ;
writeDataReturn ==
    /\ pc = "writeWait"
    /\ WaitExits(waitLoop, IF backend = "fs" THEN fs_callback_flag
                           ELSE fs_writeData_callback_flag)
    /\ pc' = "idle"
    /\ ret' = Returned(writeDataResult(TRUE), "ok")
    /\ IF backend = "fs"
       THEN /\ SetGuard(deinitBleSd(Guard))
            /\ events' = Append(events, "release")
       ELSE UNCHANGED <<guardVars, events>>
    /\ UNCHANGED <<envVars, alignVars, flash, pending, flagVars, call, readBuf, access,
                   flash0, repeated, ops>>

-----------------------------------------------------------------------------
(* erasePage *)

erasePageResult(accepted) == accepted

erasePageCall(page, numPages, accept, bleOk) ==
    LET dest == EraseDest(backend, page)
        accepted == /\ accept
                    /\ MediumTakesErase(backend, dest, numPages)
        acq == initBleSd(Guard, bleOk)
        pre == IF backend = "fs"
               THEN <<IF acq.error THEN "acquireFailed" ELSE "acquire",
                      "begin", "submitErase">>
               ELSE <<"begin", "submitErase">>
    IN
    /\ pc = "idle"
    /\ ops < MaxOps
    /\ (backend # "fs" \/ sdEnabled) => bleOk
    /\ ~MediumTakesErase(backend, dest, numPages) => accept
    /\ Begin([NoCall EXCEPT !.op = "erase", !.page = page, !.numPages = numPages])
    /\ readBuf' = <<>>
    /\ access' = [NoAccess EXCEPT !.submit = Span(dest, numPages * PageBytes)]
    /\ UNCHANGED <<envVars, alignVars, flash, fs_writeData_callback_flag>>
    /\ IF backend = "fs"
       THEN /\ SetGuard(acq.g)
            /\ fs_callback_flag' = 1
            /\ UNCHANGED fs_erasePage_callback_flag
       ELSE /\ fs_erasePage_callback_flag' = 1
            /\ UNCHANGED <<guardVars, fs_callback_flag>>
    /\ IF accepted
       THEN /\ pending' = [kind |-> "erase", dest |-> dest, bytes |-> <<>>,
                           pages |-> numPages]
            /\ pc' = "eraseWait"
            /\ ret' = NoRet
            /\ events' = Append(pre, "accepted")
       ELSE /\ ret' = Returned(erasePageResult(FALSE), "rejected")
            /\ events' = Append(pre, "rejected")
            /\ UNCHANGED <<pending, pc>>

erasePageReturn ==
    /\ pc = "eraseWait"
    /\ WaitExits(waitLoop, IF backend = "fs" THEN fs_callback_flag
                           ELSE fs_erasePage_callback_flag)
    /\ pc' = "idle"
    /\ ret' = Returned(erasePageResult(TRUE), "ok")
    /\ IF backend = "fs"
       THEN /\ SetGuard(deinitBleSd(Guard))
            /\ events' = Append(events, "release")
       ELSE UNCHANGED <<guardVars, events>>
    /\ UNCHANGED <<envVars, alignVars, flash, pending, flagVars, call, readBuf, access,
                   flash0, repeated, ops>>

\* a "once" build enters the loop of writeData or erasePage with the flag set
waitForever ==
    /\ pc \in {"writeWait", "eraseWait"}
    /\ WaitSpins(waitLoop, fs_callback_flag)
    /\ pc' = "spin"
    /\ UNCHANGED <<envVars, alignVars, flash, pending, flagVars, guardVars, call, ret,
                   readBuf, access, flash0, events, repeated, ops>>

-----------------------------------------------------------------------------
(* The application, between two calls, initialises BLE for its own use: the *)
(* SoftDevice is enabled from then on (softdevice_handler_isEnabled(),     *)
(* storage/NRF52FlashStorage.cpp:105) and is the application's.            *)
applicationStartsBle ==
    /\ backend = "fs"
    /\ pc = "idle"
    /\ pending = NoOp
    /\ ops < MaxOps
    /\ ~sdEnabled
    /\ sdEnabled' = TRUE
    /\ bleInit' = TRUE
    /\ sdExternal' = TRUE
    /\ UNCHANGED <<backend, waitLoop, alignVars, flash, pending, flagVars, activatedSdStatus,
                   sdThreads, pc, call, ret, readBuf, access, flash0, events, repeated, ops>>

-----------------------------------------------------------------------------
(* The medium completes the pending operation and raises its event *)

\* success: all of it done.  Failure: the first k words / pages done.
MediumComplete(success, k) ==
    /\ pending.kind # "none"
    /\ success => k = OpUnits(pending)
    /\ flash' = AfterOp(flash, pending, k)
    /\ pending' = NoOp
    /\ events' = Append(events, IF success THEN "signalOk" ELSE "signalFail")
    /\ IF backend = "fs"
       THEN /\ fs_callback_flag' = fs_evt_handler(fs_callback_flag, success)
            /\ UNCHANGED <<fs_writeData_callback_flag, fs_erasePage_callback_flag>>
       ELSE LET f == fstorage_evt_handler(
                        [write |-> fs_writeData_callback_flag,
                         erase |-> fs_erasePage_callback_flag], pending.kind, success)
            IN  /\ fs_writeData_callback_flag' = f.write
                /\ fs_erasePage_callback_flag' = f.erase
                /\ UNCHANGED fs_callback_flag
    /\ UNCHANGED <<envVars, alignVars, guardVars, pc, call, ret, readBuf, access,
                   flash0, repeated, ops>>

-----------------------------------------------------------------------------

StoreInit ==
    /\ backend \in Backends
    /\ waitLoop \in WaitLoops(backend)
    /\ flash \in InitImages
    /\ pending = NoOp
    /\ fs_callback_flag = 0
    /\ fs_writeData_callback_flag = 0
    /\ fs_erasePage_callback_flag = 0
    /\ sdEnabled \in (IF backend = "fs" THEN BOOLEAN ELSE {FALSE})
    /\ bleInit = sdEnabled
    /\ activatedSdStatus = FALSE
    /\ sdThreads = 0
    /\ sdExternal = sdEnabled
    /\ pc = "idle"
    /\ call = NoCall
    /\ ret = NoRet
    /\ readBuf = <<>>
    /\ access = NoAccess
    /\ flash0 = flash
    /\ events = <<>>
    /\ repeated = FALSE
    /\ ops = 0

Init ==
    /\ StoreInit
    /\ request = NoRequest
    /\ aligned = NoAligned

Next ==
    \/ \E ok \in BOOLEAN : init(ok)
    \/ \E a \in BufferArgs(backend) : readDataCall(a[1], a[2], a[3])
    \/ \E a \in BufferArgs(backend), seed \in Seeds, accept \in BOOLEAN,
          bleOk \in BOOLEAN :
          writeDataCall(a[1], a[2], a[3], seed, accept, bleOk)
    \/ writeDataReturn
    \/ \E a \in EraseArgs, accept \in BOOLEAN, bleOk \in BOOLEAN :
          erasePageCall(a[1], a[2], accept, bleOk)
    \/ erasePageReturn
    \/ waitForever
    \/ applicationStartsBle
    \/ \E success \in BOOLEAN, k \in 0 .. OpUnits(pending) : MediumComplete(success, k)

Spec == Init /\ [][Next]_vars

\* The medium finishes what it accepted and delivers the event; the caller's
\* thread runs, so a wait loop whose condition has become false is left.
MediumDelivers == \E success \in BOOLEAN, k \in 0 .. OpUnits(pending) : MediumComplete(success, k)

FairSpec ==
    /\ Spec
    /\ WF_vars(MediumDelivers)
    /\ WF_vars(writeDataReturn)
    /\ WF_vars(erasePageReturn)

-----------------------------------------------------------------------------
(* The alignment arithmetic on its own: readData and writeData accept every *)
(* uint32_t offset and every uint16_t length, far more than the calls above *)
(* make.  Here the arithmetic is applied to offsets of each alignment and   *)
(* to the shortest and the longest lengths a uint16_t holds.                *)

UINT16_MAX == 65535
MaxAlignOffset == 7
AlignSpan == 8

AlignOffsets == 0 .. MaxAlignOffset
AlignLengths == (1 .. AlignSpan) \cup ((UINT16_MAX - AlignSpan + 1) .. UINT16_MAX)

AlignInit ==
    /\ StoreInit
    /\ request \in [p_location : AlignOffsets, length8 : AlignLengths]
    /\ aligned = NoAligned

\* the first lines of readData / writeData, up to length32
alignRequest ==
    /\ request # NoRequest
    /\ aligned = NoAligned
    /\ aligned' = <<AlignedRequest(request.p_location, request.length8)>>
    /\ UNCHANGED <<envVars, flash, pending, flagVars, guardVars, pc, call, ret, readBuf,
                   access, flash0, events, repeated, ops, request>>

AlignNext == alignRequest

AlignSpec == AlignInit /\ [][AlignNext]_vars

-----------------------------------------------------------------------------
(* Vocabulary of the properties *)

Has(e) == \E i \in 1 .. Len(events) : events[i] = e

\* the bytes the call was asked to read or write
Range == call.p_location .. call.p_location + call.length8 - 1

ArgsOk == ~(call.bufNull \/ call.length8 = 0)

WasErased == \A a \in Range : MemByte(flash0, a) = ERASED

InBounds == call.p_location + call.length8 <= EndOffset(backend)

\* the medium refused the submission or signalled a failed completion
MediumFailed == Has("rejected") \/ Has("signalFail")

\* the callback has run, the flag polled by the wait loop is still 1 and
\* nothing is left that could clear it
Stuck ==
    /\ pc \in {"writeWait", "eraseWait"}
    /\ pending = NoOp
    /\ IF backend = "fs" THEN fs_callback_flag = 1
       ELSE IF pc = "writeWait" THEN fs_writeData_callback_flag = 1
       ELSE fs_erasePage_callback_flag = 1

PageOffsets(page) == page * PageBytes .. (page + 1) * PageBytes - 1

\* position of the first event e of the call (0: none)
Pos(e) == IF Has(e) THEN CHOOSE i \in 1 .. Len(events) :
                             /\ events[i] = e
                             /\ \A j \in 1 .. i - 1 : events[j] # e
          ELSE 0

Before(e1, e2) == Has(e1) /\ Has(e2) /\ Pos(e1) < Pos(e2)

\* the flag the wait loops poll is set
FlagPending ==
    IF backend = "fs" THEN fs_callback_flag = 1
    ELSE fs_writeData_callback_flag = 1 \/ fs_erasePage_callback_flag = 1

-----------------------------------------------------------------------------
(* C1: round trip.  A write of data to an erased range inside the bounds,   *)
(* which the medium does not fail, returns success, and a read of the same *)
(* range then returns exactly data.                                        *)
C1_RoundTrip ==
    (call.op = "write" /\ ret.done /\ ArgsOk /\ InBounds /\ WasErased /\ ~MediumFailed)
        => /\ ret.value
           /\ readData(backend, flash, call.p_location, call.length8)
                = Data(call.seed, call.length8)

(* C2: write-once enforcement.  A write whose range holds a byte other      *)
(* than 0xFF returns at the not-empty check: nothing is submitted, the     *)
(* guard is not touched and the medium is unchanged.                       *)
C2_WriteOnce ==
    (call.op = "write" /\ ArgsOk /\ ~WasErased)
        => /\ ret = Returned(FALSE, "notEmpty")
           /\ ~Has("submitWrite")
           /\ ~Has("acquire") /\ ~Has("acquireFailed")
           /\ flash = flash0

C4_WriteFrame ==
    (call.op = "write" /\ ret.done /\ ret.value)
        => \A a \in DOMAIN flash \cup DOMAIN flash0 :
             a \notin Range => MemByte(flash, a) = MemByte(flash0, a)

C4_Witness ==
    /\ call.op = "write" /\ ret.done /\ ret.value
    /\ \E a \in DOMAIN flash0 :
          /\ a \notin Range
          /\ a >= LocationReal(call.p_location)
          /\ a < LocationReal(call.p_location)
                   + LengthReal(call.p_location, call.length8)

C6_FaultsReported ==
    MediumFailed => (~Stuck /\ (ret.done => ~ret.value))

(* C7: when the SoftDevice cannot be brought up, write and erasePage       *)
(* return a fault without submitting anything to the medium.               *)
C7_GuardFailureStops ==
    Has("acquireFailed")
        => /\ ret.done /\ ~ret.value
           /\ ~Has("submitWrite") /\ ~Has("submitErase")

C9_InvalidArgs ==
    (call.op \in {"read", "write"} /\ ~ArgsOk)
        => /\ ret = Returned(FALSE, "null")
           /\ events = <<>>
           /\ pending = NoOp
           /\ flash = flash0

C9_Witness ==
    /\ call.op = "write" /\ call.length8 = 0 /\ ret.done

(* C10: a read changes neither the medium nor a completion flag nor the     *)
(* guard, and a read that repeats the read before it returns the same      *)
(* bytes.                                                                  *)
C10_ReadPure ==
    [][(call'.op = "read" /\ ops' = ops + 1)
         => /\ flash' = flash
            /\ pending' = pending
            /\ flagVars' = flagVars
            /\ guardVars' = guardVars
            /\ (repeated' => readBuf' = readBuf)]_vars

C10_Witness ==
    /\ call.op = "read" /\ repeated /\ ret.value /\ Len(readBuf) > 0


(* C11: a write to an erased range succeeds although bytes next to it, in   *)
(* the same words, are programmed; a read of the whole area (the words the *)
(* write covers) then returns the bytes written before unchanged and the   *)
(* new bytes, each at its position.                                        *)
C11_SharedWordWrites ==
    (call.op = "write" /\ ret.done /\ ArgsOk /\ InBounds /\ WasErased /\ ~MediumFailed)
        => /\ ret.value
           /\ LET locationReal == LocationReal(call.p_location)
                   lengthReal == LengthReal(call.p_location, call.length8)
               IN  readData(backend, flash, locationReal, lengthReal)
                     = [j \in 1 .. lengthReal |->
                          IF locationReal + j - 1 \in Range
                          THEN Data(call.seed, call.length8)
                                 [locationReal + j - call.p_location]
                          ELSE MemByte(flash0, locationReal + j - 1)]

(* C12: the erase/write cycle can be repeated.  Whatever was written to a   *)
(* page before, erasePage of it that the medium does not fail returns      *)
(* success and every byte written before reads 0xFF; and whatever happened *)
(* before, a write of one byte to an offset of a page in the erased state  *)
(* that the medium does not fail returns success and reads back.  Each     *)
(* step of the cycle leads to the precondition of the next.                *)
C12_EraseWriteCycle ==
    /\ (call.op = "erase" /\ ret.done /\ call.numPages = 1
           /\ (call.page + 1) * PageBytes <= EndOffset(backend) /\ ~MediumFailed)
          => /\ ret.value
             /\ \A o \in DOMAIN flash0 \cap PageOffsets(call.page) :
                   readData(backend, flash, o, 1) = <<ERASED>>
    /\ (call.op = "write" /\ ret.done /\ ~call.bufNull /\ call.length8 = 1 /\ InBounds
           /\ DOMAIN flash0 \cap PageOffsets(call.p_location \div PageBytes) = {}
           /\ ~MediumFailed)
          => /\ ret.value
             /\ readData(backend, flash, call.p_location, 1) = Data(call.seed, 1)

C14_WaitEnds == (Has("accepted") /\ ~ret.done) ~> ret.done

(* C15: when write or erasePage has returned, whatever the result, no       *)
(* event thread or queue started by initBleSd is left and                  *)
(* activatedSdStatus is false.                                             *)
C15_GuardTornDown ==
    (call.op \in {"write", "erase"} /\ ret.done)
        => (~activatedSdStatus /\ sdThreads = 0)

(* C16: a BLE stack that the application brought up is never shut down by   *)
(* write or erasePage: it is still enabled and initialised whenever a call *)
(* has returned, whatever calls came before.                               *)
C16_ExternalStackUntouched ==
    sdExternal => (sdEnabled /\ bleInit)

C18_OneInFlight ==
    [][(ops' = ops + 1 /\ call'.op \in {"write", "erase"}
          /\ \E i \in 1 .. Len(events') : events'[i] = "begin")
         => (pending = NoOp /\ ~FlagPending)]_vars

(* C19: the completion flag is set only while a write or erasePage call is  *)
(* executing: whenever no call is executing it is not set.                 *)
C19_FlagIdleBetweenCalls ==
    (pc = "idle") => ~FlagPending

(* C20: a read that returns success has copied to the caller exactly the    *)
(* bytes the medium holds at [offset, offset + length).                    *)
C20_ReadExact ==
    (call.op = "read" /\ ret.done /\ ret.value)
        => readBuf = [j \in 1 .. call.length8 |-> MemByte(flash, call.p_location + j - 1)]

(* C21: erasePage(page, count) hands the medium the start of page `page`    *)
(* (start address + page * page size in bytes) as the erase address; when  *)
(* it returns success the pages page .. page+count-1 are erased, and when  *)
(* it returns at all every byte of every other page holds what it held     *)
(* before the call.                                                        *)
C21_ErasePages ==
    (call.op = "erase" /\ Has("submitErase")) =>
        LET first == call.page * PageBytes
            last  == (call.page + call.numPages) * PageBytes - 1
        IN  /\ access.submit.lo = first
            /\ (ret.done /\ ret.value) =>
                   \A a \in DOMAIN flash : a \in first .. last => flash[a] = ERASED
            /\ ret.done =>
                   \A a \in DOMAIN flash \cup DOMAIN flash0 :
                       a \notin first .. last => MemByte(flash, a) = MemByte(flash0, a)

(* C22: for every offset and every length in 1..65535 the aligned request   *)
(* computed by readData / writeData (span in uint16_t arithmetic) has       *)
(* wordAddress a multiple of 4 and not above the offset, preSkip equal to   *)
(* offset mod 4 and to offset - wordAddress, wordCount*4 the smallest       *)
(* multiple of 4 that is >= length + preSkip, and wordAddress + wordCount*4 *)
(* >= offset + length.                                                      *)
C22_Alignment ==
    aligned # NoAligned =>
        LET a == aligned[1]
            offset == request.p_location
            length == request.length8
            raw == length + a.preLength
        IN  /\ a.locationReal % 4 = 0
            /\ a.preLength = offset % 4
            /\ a.preLength = offset - a.locationReal
            /\ a.locationReal <= offset
            /\ (a.length32 * 4) % 4 = 0
            /\ a.length32 * 4 >= raw
            /\ a.length32 * 4 < raw + 4
            /\ a.locationReal + a.length32 * 4 >= offset + length

(* C23: whatever the arguments of a read, write or erasePage call, every    *)
(* word the call loads from the medium and every word or page it hands to  *)
(* the medium for programming or erasure lies in [start, end).             *)
C23_AccessInside ==
    \A s \in {access.fetch, access.submit} :
        s.lo < s.hi => (0 <= s.lo /\ s.hi <= EndOffset(backend))

========================================================================
